---- MODULE Spec2Model ----
(***************************************************************************)
(* Model of the Advent-of-Code benchmark harness (aoc-bench) and of the    *)
(* report pass (aoc-bench-parser).                                         *)
(*                                                                         *)
(* Time is counted in milliseconds.  A closure of a variant (parse_input,  *)
(* solve_part1, solve_part2) either returns after d ms with an answer,     *)
(* panics after d ms with a payload, or never returns.  The behaviour of a *)
(* closure is fixed the first time a worker of the current call invokes    *)
(* it.  Strings that the code formats, compares or searches are sequences  *)
(* of one-character strings.                                               *)
(***************************************************************************)
EXTENDS Integers, Sequences, FiniteSets, TLC

VARIABLES pc, ui, di, call, workers, log, exports, report, registered,
          criterion_dir, ns, scaled

vars == <<pc, ui, di, call, workers, log, exports, report, registered,
          criterion_dir, ns, scaled>>

\* the state of the parser, which the harness does not touch
parserVars == <<criterion_dir, ns, scaled>>

(***************************************************************************)
(* Bounds of the model.                                                    *)
(***************************************************************************)
\* number of (author, day) pairs for which a variant is registered; the day
\* type of every other pair is the unit type
MaxVariants == 2

\* number of directories in the criterion directory the parser is run on
MaxDirs == 3

\* largest exponent of ten of a duration given to scale_nanoseconds_value
MaxExp == 9

(***************************************************************************)
(* Strings.                                                                *)
(***************************************************************************)
Digit(n) == CASE n = 0 -> "0" [] n = 1 -> "1" [] n = 2 -> "2" [] n = 3 -> "3"
              [] n = 4 -> "4" [] n = 5 -> "5" [] n = 6 -> "6" [] n = 7 -> "7"
              [] n = 8 -> "8" [] n = 9 -> "9"

RECURSIVE Decimal(_)
\* u64::to_string
Decimal(n) == IF n < 10 THEN <<Digit(n)>> ELSE Decimal(n \div 10) \o <<Digit(n % 10)>>

\* the format specifier {:02} applied to a u8
Pad02(n) == IF n < 10 THEN <<"0">> \o Decimal(n) ELSE Decimal(n)

\* str::contains
Contains(s, pat) ==
    \E i \in 0..(Len(s) - Len(pat)) : SubSeq(s, i + 1, i + Len(pat)) = pat

NotYetImplemented ==
    <<"n","o","t"," ","y","e","t"," ","i","m","p","l","e","m","e","n","t","e","d">>

(***************************************************************************)
(* The variants under test.                                                *)
(***************************************************************************)
\* panic payloads: todo!() and unimplemented!() carry a &'static str,
\* todo!("x") with format arguments carries a String
Payloads ==
    { [ty |-> "str", text |-> NotYetImplemented],
      [ty |-> "str", text |-> <<"n","o","t"," ","i","m","p","l","e","m","e","n","t","e","d">>],
      [ty |-> "String", text |-> NotYetImplemented \o <<":"," ","x">>] }

NoPayload == [ty |-> "none", text |-> <<>>]

\* answers: a u64 or a string, both Display
U64(n) == [t |-> "u64", v |-> n, s |-> <<>>]
Str(s) == [t |-> "str", v |-> 0, s |-> s]
NoAnswer == Str(<<>>)
Answers == {U64(680), U64(710), Str(<<>>)}

\* Display::to_string of an answer
to_string(a) == IF a.t = "u64" THEN Decimal(a.v) ELSE a.s

Never == -1

Ret(d, a) == [k |-> "ret", d |-> d, a |-> a, p |-> NoPayload]
PanicB(d, p) == [k |-> "panic", d |-> d, a |-> NoAnswer, p |-> p]
Hang == [k |-> "hang", d |-> Never, a |-> NoAnswer, p |-> NoPayload]
Unresolved == [k |-> "unresolved", d |-> Never, a |-> NoAnswer, p |-> NoPayload]

\* behaviours of parse_input (the parsed input is not an answer)
ParseBehaviours ==
    {Ret(d, NoAnswer) : d \in {50, 2000}}
      \cup {PanicB(50, p) : p \in Payloads}
      \cup {PanicB(2000, p) : p \in {q \in Payloads : q.ty = "String"}}
      \cup {Hang}

\* behaviours of solve_part1
Part1Behaviours ==
    {Ret(50, a) : a \in Answers}
      \cup {Ret(d, U64(680)) : d \in {450, 950, 9980}}
      \cup {PanicB(50, p) : p \in Payloads}
      \cup {Hang}

\* behaviours of solve_part2
Part2Behaviours ==
    {Ret(50, a) : a \in Answers}
      \cup {PanicB(50, p) : p \in Payloads}
      \cup {Hang}

(***************************************************************************)
(* Program constants.                                                      *)
(***************************************************************************)
ParseDeadline == 1000
Part1Deadline == 10000
Part2Deadline == 30000

\* the deadline of part2 used for part1 as well
DeadlineSwapped(phase) ==
    CASE phase = "parse" -> ParseDeadline
      [] phase = "part1" -> Part2Deadline
      [] phase = "part2" -> Part2Deadline

Deadline(phase) ==
    CASE phase = "parse" -> ParseDeadline
      [] phase = "part1" -> Part1Deadline
      [] phase = "part2" -> Part2Deadline

\* the authors of benches()
benches == << <<"x">>, <<"y","x">> >>

\* (day, expected part 1, expected part 2); an empty string is a day whose
\* answer is not known
INPUTS_OUTPUTS ==
    << [day |-> 2, out1 |-> <<"6","8","0">>, out2 |-> <<"7","1","0">>],
       [day |-> 7, out1 |-> <<>>, out2 |-> <<>>] >>

NumDays == Len(INPUTS_OUTPUTS)

Phases == {"parse", "part1", "part2"}

(***************************************************************************)
(* The worker threads of bench_aoc_day.                                    *)
(***************************************************************************)
OkMsg(x) == [tag |-> "Ok", val |-> x, p |-> NoPayload]
ErrMsg(p) == [tag |-> "Err", val |-> "Ok", p |-> p]
NoMsg == [tag |-> "none", val |-> "Ok", p |-> NoPayload]

\* running  b1, then b2, ... inside catch_unwind: the closures invoked, the
\* time the run takes and the first panic
RECURSIVE RunClosures(_, _)
RunClosures(names, v) ==
    IF names = <<>> THEN [T |-> 0, invoked |-> {}, p |-> NoPayload, ok |-> TRUE]
    ELSE LET b == v[Head(names)] IN
         CASE b.k = "hang" ->
                [T |-> Never, invoked |-> {Head(names)}, p |-> NoPayload, ok |-> FALSE]
           [] b.k = "panic" ->
                [T |-> b.d, invoked |-> {Head(names)}, p |-> b.p, ok |-> FALSE]
           [] OTHER ->
                LET r == RunClosures(Tail(names), v) IN
                [T |-> IF r.T = Never THEN Never ELSE b.d + r.T,
                 invoked |-> {Head(names)} \cup r.invoked,
                 p |-> r.p, ok |-> r.ok]

\* the closures a worker of a phase calls, in order
WorkerClosures(phase) ==
    CASE phase = "parse" -> <<"parse">>
      [] phase = "part1" -> <<"parse", "part1">>
      [] phase = "part2" -> <<"parse", "part1", "part2">>

\* the comparison the wrong way round
CheckAnswerInverted(a, expected) ==
    IF to_string(a) = expected THEN "WrongAnswer" ELSE "Ok"

\* the comparison of the answer with the expected string inside the worker
CheckAnswer(a, expected) ==
    IF to_string(a) /= expected THEN "WrongAnswer" ELSE "Ok"

\* thread::spawn: the worker of a phase of variant v
Worker(u, d, phase, v, expected) ==
    LET r == RunClosures(WorkerClosures(phase), v) IN
    [u |-> u, d |-> d, phase |-> phase, T |-> r.T, invoked |-> r.invoked,
     msg |-> IF r.T = Never THEN NoMsg
             ELSE IF ~r.ok THEN ErrMsg(r.p)
             ELSE IF phase = "parse" THEN OkMsg("Ok")
             ELSE OkMsg(CheckAnswer(v[phase].a, expected)),
     st |-> "running"]

(***************************************************************************)
(* The status log and the criterion export.                                *)
(***************************************************************************)
Banner(user, day) == [kind |-> "banner", user |-> user, day |-> day, phase |-> "", cls |-> ""]
Status(user, day, phase, cls) ==
    [kind |-> "status", user |-> user, day |-> day, phase |-> phase, cls |-> cls]
Msg(text) == [kind |-> "msg", user |-> text, day |-> 0, phase |-> "", cls |-> ""]

\* the text bench_aoc prints for an ExecutionError
ErrorText(e) ==
    CASE e = "Timeout" -> "timeout"
      [] e = "WrongAnswer" -> "wrong answer"
      [] e = "NotImplemented" -> "not implemented"
      [] e = "Panic" -> "panicked"

PhaseLine(user, day, phase, r) ==
    IF r = "Ok" THEN <<>> ELSE <<Status(user, day, phase, ErrorText(r))>>

TotalLine(user, day, res) ==
    IF \A ph \in Phases : res[ph] = "Ok" THEN <<>>
    ELSE IF \A ph \in Phases : res[ph] = "NotImplemented"
         THEN <<Status(user, day, "Total", "not implemented")>>
         ELSE <<Status(user, day, "Total", "error")>>

\* the lines bench_aoc prints after bench_aoc_day returned res
StatusLines(user, day, res) ==
    PhaseLine(user, day, "parse", res["parse"])
      \o PhaseLine(user, day, "part1", res["part1"])
      \o PhaseLine(user, day, "part2", res["part2"])
      \o TotalLine(user, day, res)

\* c.bench_function(name): criterion writes <name>/new/estimates.json
Export(user, day, phase) == [user |-> user, day |-> day, phase |-> phase]

(***************************************************************************)
(* bench_aoc_day and the loops of bench_aoc and benches.                   *)
(***************************************************************************)
AllResults(r) == [ph \in Phases |-> r]
Pending == AllResults("pending")

NoVariant == [c \in {"parse", "part1", "part2"} |-> Unresolved]

NoCall == [u |-> 0, d |-> 0, impl |-> FALSE, v |-> NoVariant, spawned |-> {},
           benched |-> {}, res |-> Pending, returned |-> TRUE,
           waits |-> {}, joined |-> {}]

\* recv_timeout of a phase returned after t ms
Wait(phase, t) == [phase |-> phase, t |-> t]

User(c) == benches[c.u]
Day(c) == INPUTS_OUTPUTS[c.d].day

\* the sample size chosen from the elapsed time of the correctness pass
SampleSize(dur) ==
    IF dur > 100 /\ dur < 1000 THEN 50
    ELSE IF dur > 1000 THEN 10
    ELSE 100

\* the classification of a panic of the part1 or part2 worker
ClassifyPanic(p) ==
    IF p.ty = "str"
    THEN IF Contains(p.text, NotYetImplemented) THEN "NotImplemented" ELSE "Panic"
    ELSE "Panic"

\* the match on recv_timeout of the parse worker
ClassifyParse(m) ==
    IF m.tag = "Ok" THEN "Ok" ELSE "Panic"

\* the match on recv_timeout of the part1 and part2 workers
ClassifySolve(m) ==
    IF m.tag = "Ok" THEN m.val ELSE ClassifyPanic(m.p)

\* a wait without a deadline for a worker that never sends
DeadlineFiresNotForHang(w) == w.T /= Never /\ w.T >= Deadline(w.phase)

\* recv_timeout gives up: the worker has not sent when the deadline is reached
DeadlineFires(w) == w.T = Never \/ w.T >= Deadline(w.phase)

\* the early return for a panic of the parser left out
ParseStopsTimeoutOnly(r) == r = "Timeout"

\* the early returns after the parse pass
ParseStops(r) == r = "Timeout" \/ r = "Panic"

\* the unit type reported as a crash
UnitResultPanic == AllResults("Panic")

\* the result for the unit type
UnitResult == AllResults("NotImplemented")

\* a wrong answer taken for a success
SucceededOrWrongAnswer(r) == r = "Ok" \/ r = "WrongAnswer"

\* a timeout taken for a success
SucceededOrTimeout(r) == r = "Ok" \/ r = "Timeout"

\* matches!(part1_result, Ok(())): the guard of the join and of the benchmark
Succeeded(r) == r = "Ok"

Awaited(w) ==
    /\ ~call.returned
    /\ w.u = call.u /\ w.d = call.d
    /\ pc = "wait_" \o w.phase

\* one channel for all the workers of a call
ReceivesOfAnyPhase(w) ==
    /\ ~call.returned
    /\ w.u = call.u /\ w.d = call.d

\* receiver.recv_timeout: the receiver is the other end of the channel
\* made for the worker of the phase, so it gets the message of that worker
Receives(w) == Awaited(w)

\* bench_aoc_day returns res; bench_aoc prints the status lines and goes on
\* with the next entry of INPUTS_OUTPUTS, benches with the next author
Return(c, res, ws, lg, ex) ==
    /\ call' = [c EXCEPT !.res = res, !.returned = TRUE]
    /\ log' = lg \o StatusLines(User(c), Day(c), res)
    /\ exports' = ex
    /\ workers' = {w \in ws : w.st = "running" /\ w.T /= Never}
    /\ IF di < NumDays
       THEN di' = di + 1 /\ ui' = ui /\ pc' = "call"
       ELSE IF ui < Len(benches)
            THEN di' = 1 /\ ui' = ui + 1 /\ pc' = "call"
            ELSE di' = di /\ ui' = ui /\ pc' = "done"
    /\ UNCHANGED report

\* the start of bench_aoc_day up to the first recv_timeout
BenchAocDayBegin ==
    /\ pc = "call"
    /\ UNCHANGED parserVars
    /\ LET day == INPUTS_OUTPUTS[di].day
           lg == Append(log, Banner(benches[ui], day))
           c0 == [NoCall EXCEPT !.u = ui, !.d = di, !.returned = FALSE]
       IN  \/ \* S is the unit type
              /\ Return(c0, UnitResult, workers, lg, exports)
              /\ UNCHANGED registered
           \/ /\ registered < MaxVariants
              /\ registered' = registered + 1
              /\ \E b \in ParseBehaviours :
                   LET v == [NoVariant EXCEPT !["parse"] = b]
                       w == Worker(ui, di, "parse", v, <<>>)
                   IN  /\ call' = [c0 EXCEPT !.impl = TRUE, !.v = v, !.spawned = {"parse"}]
                       /\ workers' = workers \cup {w}
                       /\ log' = lg
                       /\ pc' = "wait_parse"
                       /\ UNCHANGED <<ui, di, exports, report>>

\* a worker finishes its closure and sends the result on its channel
WorkerSend(w) ==
    /\ w \in workers
    /\ UNCHANGED parserVars
    /\ w.st = "running"
    /\ w.T /= Never
    /\ Awaited(w) => w.T <= Deadline(w.phase)
    /\ workers' = IF ~call.returned /\ w.u = call.u /\ w.d = call.d
                  THEN (workers \ {w}) \cup {[w EXCEPT !.st = "sent"]}
                  ELSE workers \ {w}
    /\ UNCHANGED <<pc, ui, di, call, log, exports, report, registered>>

\* what follows the parse correctness pass once parse_result is known
AfterParse(w, r, dur) ==
    IF ParseStops(r)
    THEN /\ Return([call EXCEPT !.res["parse"] = r, !.waits = @ \cup {Wait("parse", dur)}],
                   AllResults(r), workers \ {w}, log, exports)
         /\ UNCHANGED registered
    ELSE \E b \in Part1Behaviours :
           LET v == [call.v EXCEPT !["part1"] = b]
               w1 == Worker(call.u, call.d, "part1", v, INPUTS_OUTPUTS[call.d].out1)
           IN  /\ call' = [call EXCEPT !.res["parse"] = r, !.v = v,
                                       !.waits = @ \cup {Wait("parse", dur)},
                                       !.joined = @ \cup {"parse"},
                                       !.benched = @ \cup {[phase |-> "parse", n |-> 100]},
                                       !.spawned = @ \cup {"part1"}]
               /\ exports' = exports \cup {Export(User(call), Day(call), "parse")}
               /\ workers' = (workers \ {w}) \cup {w1}
               /\ pc' = "wait_part1"
               /\ UNCHANGED <<ui, di, log, report, registered>>

RecvParse ==
    /\ pc = "wait_parse"
    /\ UNCHANGED parserVars
    /\ \E w \in workers :
         /\ Receives(w) /\ w.st = "sent"
         /\ AfterParse(w, ClassifyParse(w.msg), w.T)

TimeoutParse ==
    /\ pc = "wait_parse"
    /\ UNCHANGED parserVars
    /\ \E w \in workers :
         /\ Awaited(w) /\ w.st = "running"
         /\ DeadlineFires(w)
         /\ AfterParse(w, "Timeout", Deadline("parse"))

\* what follows the part1 correctness pass: the benchmark of part1 when it
\* succeeded, then in every case the spawn of the part2 worker
AfterPart1(w, r, dur) ==
    \E b \in IF call.v["part1"].k = "ret" THEN Part2Behaviours ELSE {Unresolved} :
      LET v == [call.v EXCEPT !["part2"] = b]
          w2 == Worker(call.u, call.d, "part2", v, INPUTS_OUTPUTS[call.d].out2)
          ok == Succeeded(r)
      IN  /\ call' = [call EXCEPT !.res["part1"] = r, !.v = v,
                        !.waits = @ \cup {Wait("part1", dur)},
                        !.joined = IF ok THEN @ \cup {"part1"} ELSE @,
                        !.benched = IF ok THEN @ \cup {[phase |-> "part1", n |-> SampleSize(dur)]}
                                    ELSE @,
                        !.spawned = @ \cup {"part2"}]
          /\ exports' = IF ok THEN exports \cup {Export(User(call), Day(call), "part1")}
                        ELSE exports
          /\ workers' = (IF w.st = "sent" THEN workers \ {w} ELSE workers) \cup {w2}
          /\ pc' = "wait_part2"
          /\ UNCHANGED <<ui, di, log, report, registered>>

RecvPart1 ==
    /\ pc = "wait_part1"
    /\ UNCHANGED parserVars
    /\ \E w \in workers :
         /\ Receives(w) /\ w.st = "sent"
         /\ AfterPart1(w, ClassifySolve(w.msg), w.T)

TimeoutPart1 ==
    /\ pc = "wait_part1"
    /\ UNCHANGED parserVars
    /\ \E w \in workers :
         /\ Awaited(w) /\ w.st = "running"
         /\ DeadlineFires(w)
         /\ AfterPart1(w, "Timeout", Deadline("part1"))

\* what follows the part2 correctness pass: the benchmarks of part2 and of
\* Total when part2 succeeded, then the return of the three results
AfterPart2(w, r, dur, lg) ==
    LET ok == Succeeded(r)
        c == [call EXCEPT !.waits = @ \cup {Wait("part2", dur)},
                          !.joined = IF ok THEN @ \cup {"part2"} ELSE @,
                          !.benched =
                 IF ok THEN @ \cup {[phase |-> "part2", n |-> SampleSize(dur)],
                                    [phase |-> "Total", n |-> SampleSize(dur)]}
                 ELSE @]
        ex == IF ok THEN exports \cup {Export(User(call), Day(call), "part2"),
                                       Export(User(call), Day(call), "Total")}
              ELSE exports
    IN  /\ Return(c, [call.res EXCEPT !["part2"] = r],
                  IF w.st = "sent" THEN workers \ {w} ELSE workers, lg, ex)
        /\ UNCHANGED registered

RecvPart2 ==
    /\ pc = "wait_part2"
    /\ UNCHANGED parserVars
    /\ \E w \in workers :
         /\ Receives(w) /\ w.st = "sent"
         /\ AfterPart2(w, ClassifySolve(w.msg), w.T,
                       IF w.msg.tag = "Err" /\ w.msg.p.ty = "str"
                       THEN Append(log, Msg(w.msg.p.text)) ELSE log)

TimeoutPart2 ==
    /\ pc = "wait_part2"
    /\ UNCHANGED parserVars
    /\ \E w \in workers :
         /\ Awaited(w) /\ w.st = "running"
         /\ DeadlineFires(w)
         /\ AfterPart2(w, "Timeout", Deadline("part2"), log)


(***************************************************************************)
(* aoc-bench-parser: the report pass.                                      *)
(***************************************************************************)
\* the fixed strings of the two programs as character sequences
Chars(s) ==
    CASE s = "parse" -> <<"p","a","r","s","e">>
      [] s = "part1" -> <<"p","a","r","t","1">>
      [] s = "part2" -> <<"p","a","r","t","2">>
      [] s = "Total" -> <<"T","o","t","a","l">>
      [] s = "timeout" -> <<"t","i","m","e","o","u","t">>
      [] s = "wrong answer" -> <<"w","r","o","n","g"," ","a","n","s","w","e","r">>
      [] s = "wrong result" -> <<"w","r","o","n","g"," ","r","e","s","u","l","t">>
      [] s = "not implemented" -> <<"n","o","t"," ","i","m","p","l","e","m","e","n","t","e","d">>
      [] s = "panicked" -> <<"p","a","n","i","c","k","e","d">>
      [] s = "error" -> <<"e","r","r","o","r">>
      [] s = "day" -> <<"d","a","y">>
      [] s = "-day" -> <<"-","d","a","y">>
      [] s = "report" -> <<"r","e","p","o","r","t">>
      [] s = "msg: " -> <<"m","s","g",":"," ">>
      [] s = "Benchmarking user " -> <<"B","e","n","c","h","m","a","r","k","i","n","g"," ","u","s","e","r"," ">>
      [] s = ", day" -> <<","," ","d","a","y">>
      [] s = ": " -> <<":"," ">>
      [] s = "-" -> <<"-">>

\* the characters that occur, in the order of their code points
Ascii ==
    <<" ","+",",","-","0","1","2","3","4","5","6","7","8","9",":","A","B","C","D","E","F","G","H","I","J","K","L","M","N","O","P","Q","R","S","T","U","V","W","X","Y","Z","a","b","c","d","e","f","g","h","i","j","k","l","m","n","o","p","q","r","s","t","u","v","w","x","y","z">>

Code(c) == CHOOSE i \in 1..Len(Ascii) : Ascii[i] = c

\* the order of String (Ord for str: byte-wise lexicographic)
RECURSIVE LexLess(_, _)
LexLess(a, b) ==
    IF b = <<>> THEN FALSE
    ELSE IF a = <<>> THEN TRUE
    ELSE IF Head(a) = Head(b) THEN LexLess(Tail(a), Tail(b))
    ELSE Code(Head(a)) < Code(Head(b))

\* the iteration order of a BTreeSet<String> or of the keys of a BTreeMap
RECURSIVE SortedStrings(_)
SortedStrings(S) ==
    IF S = {} THEN <<>>
    ELSE LET m == CHOOSE x \in S : \A y \in S \ {x} : LexLess(x, y)
         IN  <<m>> \o SortedStrings(S \ {m})

RECURSIVE SortedNumbers(_)
SortedNumbers(S) ==
    IF S = {} THEN <<>>
    ELSE LET m == CHOOSE x \in S : \A y \in S : x <= y
         IN  <<m>> \o SortedNumbers(S \ {m})

\* str::split on a one-character separator
RECURSIVE Split(_, _)
Split(s, sep) ==
    IF \A i \in 1..Len(s) : s[i] /= sep THEN <<s>>
    ELSE LET i == CHOOSE j \in 1..Len(s) : s[j] = sep /\ \A k \in 1..(j - 1) : s[k] /= sep
         IN  <<SubSeq(s, 1, i - 1)>> \o Split(SubSeq(s, i + 1, Len(s)), sep)

IsPrefix(pre, s) == Len(pre) <= Len(s) /\ SubSeq(s, 1, Len(pre)) = pre

IsDigit(c) == c \in {"0", "1", "2", "3", "4", "5", "6", "7", "8", "9"}

RECURSIVE DigitsValue(_)
DigitsValue(s) ==
    IF s = <<>> THEN 0
    ELSE 10 * DigitsValue(SubSeq(s, 1, Len(s) - 1)) + (Code(s[Len(s)]) - Code("0"))

ParseError == -1

\* str::parse::<u8>: an optional plus sign, at least one digit, at most 255
ParseU8(s) ==
    LET t == IF s /= <<>> /\ Head(s) = "+" THEN Tail(s) ELSE s IN
    IF t = <<>> \/ \E i \in 1..Len(t) : ~IsDigit(t[i]) THEN ParseError
    ELSE IF Len(t) > 3 /\ \E i \in 1..(Len(t) - 3) : t[i] /= "0" THEN ParseError
    ELSE IF DigitsValue(t) > 255 THEN ParseError
    ELSE DigitsValue(t)

\* what the loop over read_dir makes of one directory: skipped, an error
\* that ends main, or (username, day, phase)
ParseDir(name) ==
    LET parts == Split(name, "-") IN
    IF name = Chars("report") \/ Len(parts) /= 3
    THEN [kind |-> "skip", user |-> <<>>, day |-> 0, phase |-> <<>>]
    ELSE IF ~IsPrefix(Chars("day"), parts[2])
              \/ ParseU8(SubSeq(parts[2], 4, Len(parts[2]))) = ParseError
         THEN [kind |-> "err", user |-> <<>>, day |-> 0, phase |-> <<>>]
         ELSE [kind |-> "ok", user |-> parts[1],
               day |-> ParseU8(SubSeq(parts[2], 4, Len(parts[2]))), phase |-> parts[3]]

\* benchmarks after the directories were read in the order of entries:
\* (day, phase, user) -> median, a later insert replacing an earlier one
RECURSIVE ReadDirs(_)
ReadDirs(entries) ==
    IF entries = <<>> THEN {}
    ELSE LET e == entries[Len(entries)]
             d == ParseDir(e.name)
             before == ReadDirs(SubSeq(entries, 1, Len(entries) - 1))
         IN  IF d.kind /= "ok" THEN before
             ELSE {b \in before : ~(b.user = d.user /\ b.day = d.day /\ b.phase = d.phase)}
                    \cup {[user |-> d.user, day |-> d.day, phase |-> d.phase,
                           median |-> e.median]}

ReadFails(entries) == \E i \in 1..Len(entries) : ParseDir(entries[i].name).kind = "err"

\* only the authors that have a measurement of day 1
UsersOfDayOne(bm) == SortedStrings({b.user : b \in {x \in bm : x.day = 1}})

UsersOf(bm) == SortedStrings({b.user : b \in bm})
DaysOf(bm) == SortedNumbers({b.day : b \in bm})
PhasesOf(bm, day) == {b.phase : b \in {x \in bm : x.day = day}}
HasMedian(bm, day, phase, user) ==
    \E b \in bm : b.day = day /\ b.phase = phase /\ b.user = user
MedianOf(bm, day, phase, user) ==
    (CHOOSE b \in bm : b.day = day /\ b.phase = phase /\ b.user = user).median

RECURSIVE SumMedians(_, _, _, _)
SumMedians(bm, day, phases, user) ==
    IF phases = {} THEN 0
    ELSE LET ph == CHOOSE x \in phases : TRUE
         IN  MedianOf(bm, day, ph, user) + SumMedians(bm, day, phases \ {ph}, user)

\* the Total phase of a day: the users that have a median in every phase the
\* day has, with the sum of these medians; it replaces a Total phase read
\* from the directories
TotalPhase(bm, day) ==
    LET phases == PhasesOf(bm, day)
        users == {b.user : b \in bm}
    IN  {[user |-> u, day |-> day, phase |-> Chars("Total"),
          median |-> SumMedians(bm, day, phases, u)] :
            u \in {x \in users : \A ph \in phases : HasMedian(bm, day, ph, x)}}

WithTotals(bm) ==
    {b \in bm : b.phase /= Chars("Total")}
      \cup UNION {TotalPhase(bm, day) : day \in {b.day : b \in bm}}

\* one line of the log file
LineText(l) ==
    CASE l.kind = "banner" ->
            Chars("Benchmarking user ") \o l.user \o Chars(", day") \o Pad02(l.day)
      [] l.kind = "status" ->
            l.user \o Chars("-day") \o Pad02(l.day) \o Chars("-") \o Chars(l.phase)
              \o Chars(": ") \o Chars(l.cls)
      [] l.kind = "msg" -> Chars("msg: ") \o l.user

\* log.contains(pat) for a pattern without a line break: the log is its lines
LogContains(lg, pat) == \E i \in 1..Len(lg) : Contains(LineText(lg[i]), pat)

Pattern(user, day, phase, what) ==
    user \o Chars("-day") \o Pad02(day) \o Chars("-") \o phase \o Chars(": ") \o Chars(what)

\* the cell of a user without a median
MissingCell(lg, user, day, phase) ==
    IF LogContains(lg, Pattern(user, day, phase, "not implemented")) THEN "-"
    ELSE IF LogContains(lg, Pattern(user, day, phase, "error")) THEN "pensive"
    ELSE IF LogContains(lg, Pattern(user, day, phase, "timeout")) THEN "snail"
    ELSE IF LogContains(lg, Pattern(user, day, phase, "panicked")) THEN "collision"
    ELSE IF LogContains(lg, Pattern(user, day, phase, "wrong result")) THEN "cross"
    ELSE "interrobang"

\* a duration in nanoseconds as a decimal number: m * 10^e ns, m >= 0
Float(m, e) == [m |-> m, e |-> e]

\* a median counted in picoseconds, as nanoseconds
Nanos(ps) == Float(ps, -3)

\* v <= 10f64.powi(k) in the place of v < 10f64.powi(k)
LessPowiInclusive(v, k) ==
    IF v.m = 0 THEN TRUE
    ELSE IF v.e > k THEN FALSE
    ELSE IF k - v.e > 9 THEN TRUE
    ELSE v.m <= 10 ^ (k - v.e)

\* v < 10f64.powi(k); m has at most ten digits
LessPowi(v, k) ==
    IF v.m = 0 THEN TRUE
    ELSE IF v.e >= k THEN FALSE
    ELSE IF k - v.e > 9 THEN TRUE
    ELSE v.m < 10 ^ (k - v.e)

\* v * 10f64.powi(f)
TimesPowi(v, f) == Float(v.m, v.e + f)

\* helper::scale_nanoseconds_value: the mantissa ns * factor and the unit
scale_nanoseconds_value(v) ==
    IF LessPowi(v, 0) THEN [mantissa |-> TimesPowi(v, 3), unit |-> "ps"]
    ELSE IF LessPowi(v, 3) THEN [mantissa |-> TimesPowi(v, 0), unit |-> "ns"]
    ELSE IF LessPowi(v, 6) THEN [mantissa |-> TimesPowi(v, -3), unit |-> "us"]
    ELSE IF LessPowi(v, 9) THEN [mantissa |-> TimesPowi(v, -6), unit |-> "ms"]
    ELSE [mantissa |-> TimesPowi(v, -9), unit |-> "s"]

\* no scaled duration: the cell is a glyph
NoScaled == [mantissa |-> Float(0, 0), unit |-> ""]

MinMedian(bm, day, phase) ==
    LET ms == {b.median : b \in {x \in bm : x.day = day /\ x.phase = phase}}
    IN  IF ms = {} THEN 0 ELSE CHOOSE m \in ms : \A n \in ms : m <= n

\* median < min_median * 1.05
MaybeBold(median, min_median) == 100 * median < 105 * min_median

Cell(bm, lg, day, phase, user) ==
    IF HasMedian(bm, day, phase, user)
    THEN LET m == MedianOf(bm, day, phase, user) IN
         [kind |-> "time", bold |-> MaybeBold(m, MinMedian(bm, day, phase)),
          value |-> scale_nanoseconds_value(Nanos(m)), glyph |-> ""]
    ELSE [kind |-> "glyph", bold |-> FALSE, value |-> NoScaled,
          glyph |-> MissingCell(lg, user, day, phase)]

Row(bm, lg, users, day, phase) ==
    [day |-> Decimal(day), phase |-> phase,
     cells |-> [i \in 1..Len(users) |-> Cell(bm, lg, day, phase, users[i])]]

RECURSIVE Rows(_, _, _, _)
Rows(bm, lg, users, days) ==
    IF days = <<>> THEN <<>>
    ELSE LET phases == SortedStrings(PhasesOf(bm, Head(days)) \cup {Chars("Total")})
         IN  [i \in 1..Len(phases) |-> Row(bm, lg, users, Head(days), phases[i])]
               \o Rows(bm, lg, users, Tail(days))

\* main of the parser: the table from the directories, read in the order
\* of entries, and from the log
ParserMain(entries, lg) ==
    IF ReadFails(entries) THEN [ok |-> FALSE, header |-> <<>>, rows |-> <<>>]
    ELSE LET read == ReadDirs(entries)
             bm == WithTotals(read)
             users == UsersOf(read)
         IN  [ok |-> TRUE, header |-> users, rows |-> Rows(bm, lg, users, DaysOf(bm))]

\* criterion's directory of a benchmark
DirName(e) == e.user \o Chars("-day") \o Pad02(e.day) \o Chars("-") \o Chars(e.phase)

\* median.point_estimate of new/estimates.json, in picoseconds
Estimate(k, e) ==
    (CASE e.phase = "parse" -> 10 [] e.phase = "part1" -> 20
       [] e.phase = "part2" -> 40 [] e.phase = "Total" -> 75)
      * (IF e.user = benches[k] THEN 100 ELSE 104)

Reverse(q) == [i \in 1..Len(q) |-> q[Len(q) + 1 - i]]

NoReport == [ok |-> FALSE, header |-> <<>>, rows |-> <<>>]

\* benches has returned: main prints the summary and the process ends,
\* and with it the workers that are still running
MainExit ==
    /\ pc = "done"
    /\ UNCHANGED parserVars
    /\ pc' = "exited"
    /\ call' = NoCall
    /\ workers' = {}
    /\ UNCHANGED <<ui, di, log, exports, report, registered>>

\* the parser is run on the log of the harness and on the directories
\* criterion wrote, which read_dir lists in some order
RunReport ==
    /\ pc = "exited"
    /\ UNCHANGED parserVars
    /\ \E k \in 1..Len(benches), backwards \in BOOLEAN :
         LET names == SortedStrings({DirName(e) : e \in exports})
             sorted == [i \in 1..Len(names) |->
                          [name |-> names[i],
                           median |-> Estimate(k, CHOOSE e \in exports : DirName(e) = names[i])]]
         IN  report' = ParserMain(IF backwards THEN Reverse(sorted) ELSE sorted, log)
    /\ pc' = "reported"
    /\ UNCHANGED <<ui, di, call, workers, log, exports, registered>>

Init ==
    /\ pc = "call"
    /\ ui = 1
    /\ di = 1
    /\ call = NoCall
    /\ workers = {}
    /\ log = <<>>
    /\ exports = {}
    /\ report = NoReport
    /\ registered = 0
    /\ criterion_dir = <<>>
    /\ ns = Float(0, 0)
    /\ scaled = NoScaled

Next ==
    \/ BenchAocDayBegin
    \/ \E w \in workers : WorkerSend(w)
    \/ RecvParse
    \/ TimeoutParse
    \/ RecvPart1
    \/ TimeoutPart1
    \/ RecvPart2
    \/ TimeoutPart2
    \/ MainExit

\* the harness alone
Spec == Init /\ [][Next]_vars

NextReport ==
    \/ Next
    \/ RunReport

\* the harness, and then the parser on what the harness wrote
SpecReport == Init /\ [][NextReport]_vars

\* the steps of the orchestrating thread
Orchestrator ==
    \/ BenchAocDayBegin
    \/ RecvParse
    \/ TimeoutParse
    \/ RecvPart1
    \/ TimeoutPart1
    \/ RecvPart2
    \/ TimeoutPart2

\* the orchestrating thread keeps running, and a worker whose closures
\* return or panic does send
SpecLive ==
    /\ Init
    /\ [][Next]_vars
    /\ WF_vars(Orchestrator)
    /\ WF_vars(\E w \in workers : WorkerSend(w))

TypeOK ==
    /\ pc \in {"call", "wait_parse", "wait_part1", "wait_part2", "done", "exited", "reported",
              "parser", "scale", "scaled"}
    /\ ui \in 1..Len(benches)
    /\ di \in 1..NumDays
    /\ \A ph \in Phases :
         call.res[ph] \in {"pending", "Ok", "Timeout", "WrongAnswer", "NotImplemented", "Panic"}
    /\ call.spawned \subseteq Phases
    /\ \A w \in workers : w.st \in {"running", "sent"}

(***************************************************************************)
(* Properties.                                                             *)
(***************************************************************************)
InCall == call.u /= 0

\* the budgets of the phases: 1 s, 10 s, 30 s
PhaseBudget(ph) ==
    CASE ph = "parse" -> 1000 [] ph = "part1" -> 10000 [] ph = "part2" -> 30000

\* what the worker of phase ph of the current call does
Run(ph) == RunClosures(WorkerClosures(ph), call.v)

Expected(ph) ==
    IF ph = "part1" THEN INPUTS_OUTPUTS[call.d].out1 ELSE INPUTS_OUTPUTS[call.d].out2

Failures == {"Timeout", "WrongAnswer", "NotImplemented", "Panic"}

Benchmarked(ph) == \E b \in call.benched : b.phase = ph /\ b.n >= 1

ExportedCall == {e \in exports : InCall /\ e.user = User(call) /\ e.day = Day(call)}

\* C1: when the part1 correctness pass ended non-success, no part2 worker is
\* spawned, solve_part2 is not invoked, and part2 is reported with the
\* classification of part1
C1_Part2OnlyAfterPart1Success ==
    (InCall /\ "part1" \in call.spawned /\ call.res["part1"] \in Failures)
      => /\ "part2" \notin call.spawned
         /\ \A w \in workers : (w.u = call.u /\ w.d = call.d) => "part2" \notin w.invoked
         /\ call.returned => call.res["part2"] = call.res["part1"]

\* C2: when the parse correctness pass ended non-success, bench_aoc_day has
\* returned without a part1 or part2 worker and without a benchmark, and
\* part1 and part2 carry the classification of parse
C2_ParseFailurePropagates ==
    (InCall /\ "parse" \in call.spawned /\ call.res["parse"] \in Failures)
      => /\ call.returned
         /\ call.spawned = {"parse"}
         /\ call.benched = {}
         /\ ExportedCall = {}
         /\ call.res["part1"] = call.res["parse"]
         /\ call.res["part2"] = call.res["parse"]

C2_Witness ==
    /\ InCall /\ "parse" \in call.spawned /\ call.returned
    /\ call.res["parse"] = "Panic"

\* C3: a phase whose closure never returns is classified Timeout, and once it
\* is classified the orchestrator waits on no further deadline of the variant
C3_HangMovesOn ==
    \A ph \in Phases :
      (InCall /\ ph \in call.spawned /\ call.v[ph].k = "hang" /\ call.res[ph] /= "pending")
        => call.res[ph] = "Timeout" /\ call.returned

\* C4: in each of the three phases a crash before the deadline is classified
\* NotImplemented when its payload carries the marker, and Crash otherwise
C4_MarkerMeansNotImplemented ==
    \A ph \in Phases :
      (InCall /\ ph \in call.spawned /\ call.res[ph] /= "pending"
         /\ ~Run(ph).ok /\ Run(ph).T /= Never /\ Run(ph).T < PhaseBudget(ph))
        => call.res[ph] = IF Contains(Run(ph).p.text, NotYetImplemented)
                          THEN "NotImplemented" ELSE "Panic"

\* C5: part1 or part2 is WrongAnswer only if the expected string is not empty
\* and differs from the answer; with an empty expected string a run that
\* returns in time is Success
C5_EmptyExpectedSkipsCheck ==
    \A ph \in {"part1", "part2"} :
      (InCall /\ ph \in call.spawned /\ call.res[ph] /= "pending")
        => /\ call.res[ph] = "WrongAnswer"
                => Expected(ph) /= <<>> /\ to_string(call.v[ph].a) /= Expected(ph)
           /\ (Expected(ph) = <<>> /\ Run(ph).ok /\ Run(ph).T < PhaseBudget(ph))
                => call.res[ph] = "Ok"

\* C6: for the unit type bench_aoc_day returns NotImplemented for the three
\* phases, with no worker spawned, no closure invoked and no benchmark run
C6_UnitIsNotImplemented ==
    (InCall /\ ~call.impl)
      => /\ call.returned
         /\ \A ph \in Phases : call.res[ph] = "NotImplemented"
         /\ call.spawned = {}
         /\ call.benched = {}
         /\ ExportedCall = {}
         /\ \A w \in workers : ~(w.u = call.u /\ w.d = call.d)

C6_Witness == InCall /\ ~call.impl /\ call.returned /\ ui = 2

\* C7 as stated: a phase whose own closure returns within the budget of the
\* phase with the expected answer is Success and has a benchmark with at
\* least one sample
C7_OwnClosureInBudget ==
    \A ph \in Phases :
      (InCall /\ call.returned /\ call.v[ph].k = "ret" /\ call.v[ph].d < PhaseBudget(ph)
         /\ (ph /= "parse" => to_string(call.v[ph].a) = Expected(ph)))
        => call.res[ph] = "Ok" /\ Benchmarked(ph)

\* C7 amended: a phase whose worker was spawned, ran all its closures to
\* the end within the budget of the phase and got the expected answer is
\* Success and has a benchmark with at least one sample
C7_WorkerInBudget ==
    \A ph \in Phases :
      (InCall /\ ph \in call.spawned /\ call.res[ph] /= "pending"
         /\ Run(ph).ok /\ Run(ph).T < PhaseBudget(ph)
         /\ (ph /= "parse" => to_string(call.v[ph].a) = Expected(ph)))
        => /\ call.res[ph] = "Ok"
           /\ Benchmarked(ph)
           /\ Export(User(call), Day(call), ph) \in exports

C7_Witness ==
    /\ InCall /\ call.returned
    /\ \A ph \in Phases : call.res[ph] = "Ok" /\ Benchmarked(ph)
    /\ \E b \in call.benched : b.phase = "part2" /\ b.n = 10

LateIsTimeout ==
    \A ph \in Phases :
      (InCall /\ ph \in call.spawned /\ call.res[ph] /= "pending"
         /\ Run(ph).T /= Never /\ Run(ph).T > PhaseBudget(ph))
        => call.res[ph] = "Timeout"

OutcomeFixed ==
    \A ph \in Phases :
      (InCall /\ call'.u = call.u /\ call'.d = call.d /\ call.res[ph] /= "pending")
        => call'.res[ph] = call.res[ph]

\* C8: a result that the worker has only after the deadline leaves the phase
\* Timeout, and the outcome of a phase attempt, once set, does not change
C8_LateResultIsTimeout == [](LateIsTimeout) /\ [][OutcomeFixed]_vars

C8_Witness ==
    /\ InCall /\ ~call.returned
    /\ \E w \in workers :
         /\ w.u = call.u /\ w.d = call.d /\ w.st = "sent"
         /\ w.T > PhaseBudget(w.phase)
         /\ call.res[w.phase] = "Timeout"

Attempted(u, d) ==
    \E i \in 1..Len(log) : log[i] = Banner(benches[u], INPUTS_OUTPUTS[d].day)

\* C9: under fair scheduling benches returns after bench_aoc_day was called
\* for every author and every entry of INPUTS_OUTPUTS
C9_HarnessFinishes ==
    <>(pc = "done" /\ \A u \in 1..Len(benches), d \in 1..NumDays : Attempted(u, d))

C9_Witness ==
    /\ pc = "done"
    /\ \E i \in 1..Len(log) :
         /\ log[i].kind = "status" /\ log[i].user = benches[1] /\ log[i].phase = "part2"
         /\ log[i].cls = "timeout"
    /\ \E i \in 1..Len(log) :
         /\ log[i].kind = "status" /\ log[i].user = benches[1] /\ log[i].phase = "parse"
         /\ log[i].cls = "panicked"

GlyphOf(cls) ==
    CASE cls = "timeout" -> "snail"
      [] cls = "panicked" -> "collision"
      [] cls = "wrong answer" -> "cross"
      [] cls = "not implemented" -> "-"

\* the status lines of the harness for a cell of the report
LinesFor(user, day, phase) ==
    {i \in 1..Len(log) :
       /\ log[i].kind = "status" /\ log[i].phase \in Phases
       /\ log[i].user = user /\ Decimal(log[i].day) = day /\ Chars(log[i].phase) = phase}

\* C10: the report made from the log of the harness shows, in the cell of a
\* phase the harness classified non-success, the glyph of that
\* classification, and the unknown-error glyph only where no status line
\* was logged
C10_GlyphOfClassification ==
    (pc = "reported" /\ report.ok)
      => \A r \in 1..Len(report.rows), c \in 1..Len(report.header) :
           LET row == report.rows[r]
               lines == LinesFor(report.header[c], row.day, row.phase)
           IN  /\ \A i \in lines :
                    /\ row.cells[c].kind = "glyph"
                    /\ row.cells[c].glyph = GlyphOf(log[i].cls)
               /\ (row.cells[c].kind = "glyph" /\ row.cells[c].glyph = "interrobang"
                     /\ row.phase /= Chars("Total"))
                    => lines = {}

\* the status lines of the log for a phase of the current call
CallLines(ph) ==
    {i \in 1..Len(log) :
       /\ log[i].kind = "status"
       /\ log[i].user = User(call) /\ log[i].day = Day(call) /\ log[i].phase = ph}

PhaseClassifications == {"timeout", "wrong answer", "not implemented", "panicked"}

\* C11: after bench_aoc processed an (author, day) the log has exactly one
\* status line for each of parse, part1, part2 that did not succeed and
\* none for one that did, and every status line of the log carries one of
\* timeout, wrong answer, not implemented, panicked
C11_OneStatusLinePerFailure ==
    (InCall /\ call.returned)
      => /\ \A ph \in Phases :
              Cardinality(CallLines(ph)) = IF call.res[ph] \in Failures THEN 1 ELSE 0
         /\ \A i \in 1..Len(log) :
              log[i].kind = "status" => log[i].cls \in PhaseClassifications

\* the cell of the report in the column of header[c] and the row of
\* (day, phase); the row exists
ReportCell(c, day, phase) ==
    (CHOOSE r \in {report.rows[i] : i \in 1..Len(report.rows)} :
        r.day = Decimal(day) /\ r.phase = Chars(phase)).cells[c]

HasReportRow(day, phase) ==
    \E i \in 1..Len(report.rows) :
      report.rows[i].day = Decimal(day) /\ report.rows[i].phase = Chars(phase)

\* the days of INPUTS_OUTPUTS
HarnessDays == {INPUTS_OUTPUTS[d].day : d \in 1..NumDays}

\* the harness exported a timing of every phase in phs for (user, day)
Exported(user, day, phs) == \A ph \in phs : Export(user, day, ph) \in exports

\* the exponent of ten of a unit, in nanoseconds
UnitExp(unit) ==
    CASE unit = "ps" -> -3 [] unit = "ns" -> 0 [] unit = "us" -> 3
      [] unit = "ms" -> 6 [] unit = "s" -> 9

\* the duration a timing cell shows, in picoseconds
CellPicos(cell) ==
    cell.value.mantissa.m * 10 ^ (cell.value.mantissa.e + UnitExp(cell.value.unit) + 3)

\* C12: for an author and a day whose parse, part1 and part2 all succeeded
\* the Total cell of the report is the sum of the author's parse, part1
\* and part2 medians of that day
C12_TotalIsSumOfPhases ==
    (pc = "reported" /\ report.ok)
      => \A c \in 1..Len(report.header), day \in HarnessDays :
           Exported(report.header[c], day, Phases)
             => /\ HasReportRow(day, "Total")
                /\ ReportCell(c, day, "Total").kind = "time"
                /\ CellPicos(ReportCell(c, day, "Total"))
                     = CellPicos(ReportCell(c, day, "parse"))
                         + CellPicos(ReportCell(c, day, "part1"))
                         + CellPicos(ReportCell(c, day, "part2"))

\* C13: an author without a timing of parse, part1 or part2 of a day has a
\* status cell in the Total row of that day, never a number, also when no
\* author has a timing of that phase
C13_TotalBlankWhenPhaseMissing ==
    (pc = "reported" /\ report.ok)
      => \A c \in 1..Len(report.header), day \in HarnessDays :
           (HasReportRow(day, "Total") /\ ~Exported(report.header[c], day, Phases))
             => ReportCell(c, day, "Total").kind = "glyph"

LogLines == {log[i] : i \in 1..Len(log)}

RowPhases == {"parse", "part1", "part2", "Total"}

\* the first author has no implementation of the day, the parse of the
\* second author succeeded and its part1 ran past its deadline
Scenario(day) ==
    /\ \A ph \in Phases : Status(benches[1], day, ph, "not implemented") \in LogLines
    /\ Banner(benches[2], day) \in LogLines
    /\ Export(benches[2], day, "parse") \in exports
    /\ Status(benches[2], day, "part1", "timeout") \in LogLines

\* C14: in the scenario the report of the day has the four rows parse,
\* part1, part2, Total; the cells of the first author are the
\* not-implemented glyph, the parse cell of the second author is a duration
\* and its part1, part2 and Total cells are the timeout glyph
C14_ScenarioReport ==
    (pc = "reported" /\ report.ok)
      => \A day \in HarnessDays :
           Scenario(day)
             => /\ \A ph \in RowPhases : HasReportRow(day, ph)
                /\ Cardinality({i \in 1..Len(report.rows) :
                                  report.rows[i].day = Decimal(day)}) = 4
                /\ \E cx, cy \in 1..Len(report.header) :
                     /\ report.header[cx] = benches[1]
                     /\ report.header[cy] = benches[2]
                     /\ \A ph \in RowPhases :
                          /\ ReportCell(cx, day, ph).kind = "glyph"
                          /\ ReportCell(cx, day, ph).glyph = "-"
                     /\ ReportCell(cy, day, "parse").kind = "time"
                     /\ \A ph \in RowPhases \ {"parse"} :
                          /\ ReportCell(cy, day, ph).kind = "glyph"
                          /\ ReportCell(cy, day, ph).glyph = "snail"

\* C20: the Total benchmark of a variant is run only when parse, part1 and
\* part2 of the variant were all classified Success
C20_TotalOnlyWhenAllSucceed ==
    (InCall /\ call.returned
       /\ (Export(User(call), Day(call), "Total") \in exports
             \/ \E b \in call.benched : b.phase = "Total"))
      => \A ph \in Phases : call.res[ph] = "Ok"

(***************************************************************************)
(* aoc-bench-parser on a criterion directory and a log file of its own.    *)
(***************************************************************************)
\* a directory name <user>-day<text>-<phase>
Dir(user, daytext, phase) == user \o Chars("-day") \o daytext \o Chars("-") \o Chars(phase)

\* the directories that may be in criterion_dir, with the medians their
\* new/estimates.json may hold, in picoseconds
DirEntries ==
    {[name |-> Dir(<<"a">>, <<"0", "1">>, "parse"), median |-> m] : m \in {100000, 0}}
      \cup {[name |-> Dir(<<"a">>, <<"1">>, "parse"), median |-> m] : m \in {100000, 200000}}
      \cup {[name |-> Dir(<<"b">>, <<"0", "1">>, "parse"), median |-> m] : m \in {104000, 105000}}
      \cup {[name |-> Dir(<<"c">>, <<"0", "1">>, "parse"), median |-> m] : m \in {200000, 100000}}
      \cup {[name |-> Dir(<<"b">>, <<"0", "1">>, "part1"), median |-> m] : m \in {104000, 105000}}
      \cup {[name |-> Dir(<<"a">>, <<"1", "0">>, "parse"), median |-> m] : m \in {100000, 200000}}
      \cup {[name |-> Dir(<<"c">>, <<"0", "2">>, "part2"), median |-> m] : m \in {200000, 100000}}
      \cup {[name |-> Dir(<<"b">>, <<>>, "parse"), median |-> m] : m \in {104000}}
      \cup {[name |-> Chars("report"), median |-> m] : m \in {0}}

\* read_dir: the directories in some order, no name twice
Listings ==
    UNION {{q \in [1..k -> DirEntries] : \A i, j \in 1..k : i /= j => q[i].name /= q[j].name} :
             k \in 0..MaxDirs}

\* log files
LogFiles ==
    {<<>>,
     <<Status(<<"c">>, 1, "parse", "timeout"),
       Status(<<"b">>, 1, "part1", "not implemented"),
       Status(<<"a">>, 1, "Total", "error"),
       Status(<<"c">>, 1, "part1", "wrong answer"),
       Status(<<"c", "a">>, 1, "part1", "timeout")>>}

ParserIdle ==
    /\ ui = 1
    /\ di = 1
    /\ call = NoCall
    /\ workers = {}
    /\ exports = {}
    /\ registered = 0
    /\ report = NoReport
    /\ scaled = NoScaled

InitParser ==
    /\ pc = "parser"
    /\ ParserIdle
    /\ log \in LogFiles
    /\ criterion_dir \in Listings
    /\ ns = Float(0, 0)

\* main of the parser
ParserRun ==
    /\ pc = "parser"
    /\ report' = ParserMain(criterion_dir, log)
    /\ pc' = "reported"
    /\ UNCHANGED <<ui, di, call, workers, log, exports, registered, criterion_dir, ns, scaled>>

NextParser == ParserRun

\* the parser alone
SpecParser == InitParser /\ [][NextParser]_vars

\* the durations given to scale_nanoseconds_value
Durations ==
    {Float(m, e) : m \in {0, 1, 3, 5, 15, 25, 999, 1000, 999999999}, e \in (-3)..MaxExp}

InitScale ==
    /\ pc = "scale"
    /\ ParserIdle
    /\ log = <<>>
    /\ criterion_dir = <<>>
    /\ ns \in Durations

\* a call of helper::scale_nanoseconds_value
Scale ==
    /\ pc = "scale"
    /\ scaled' = scale_nanoseconds_value(ns)
    /\ pc' = "scaled"
    /\ UNCHANGED <<ui, di, call, workers, log, exports, registered, criterion_dir, ns, report>>

NextScale == Scale

\* scale_nanoseconds_value alone
SpecScale == InitScale /\ [][NextScale]_vars

\* the place of a phase in the order parse, part1, part2, Total
PhaseRank(phase) ==
    CASE phase = Chars("parse") -> 1 [] phase = Chars("part1") -> 2
      [] phase = Chars("part2") -> 3 [] phase = Chars("Total") -> 4

\* C15: the rows of the report are in ascending order of the problem
\* number and, within a problem, in the order parse, part1, part2, Total
C15_RowsByDayThenPhase ==
    (pc = "reported" /\ report.ok)
      => \A i, j \in 1..Len(report.rows) :
           i < j =>
             LET a == report.rows[i]
                 b == report.rows[j]
             IN  \/ DigitsValue(a.day) < DigitsValue(b.day)
                 \/ a.day = b.day /\ PhaseRank(a.phase) < PhaseRank(b.phase)

\* the timing cells of a row of the report
TimeCells(row) == {c \in 1..Len(row.cells) : row.cells[c].kind = "time"}

\* the smallest median a row of the report shows, in picoseconds
RowMinimum(row) ==
    CHOOSE m \in {CellPicos(row.cells[c]) : c \in TimeCells(row)} :
      \A c \in TimeCells(row) : m <= CellPicos(row.cells[c])

\* C16: a timing cell is flagged co-best exactly if its median is at most
\* 1.05 times the minimum median of its row, so the cell with the row
\* minimum is always flagged
C16_CoBestWithinFivePercent ==
    (pc = "reported" /\ report.ok)
      => \A r \in 1..Len(report.rows) :
           LET row == report.rows[r] IN
           \A c \in TimeCells(row) :
             row.cells[c].bold <=> 100 * CellPicos(row.cells[c]) <= 105 * RowMinimum(row)

\* the orders in which read_dir may list the directories of criterion_dir
Orders ==
    {[i \in 1..Len(criterion_dir) |-> criterion_dir[f[i]]] :
       f \in Permutations(1..Len(criterion_dir))}

\* C17: the report does not depend on the order in which the directories
\* are read, also when two names denote the same (author, day, phase)
C17_OrderIndependent ==
    pc = "reported" => \A q \in Orders : ParserMain(q, log) = report

\* the authors that have a measurement in criterion_dir
Authors ==
    {ParseDir(criterion_dir[i].name).user :
       i \in {j \in 1..Len(criterion_dir) : ParseDir(criterion_dir[j].name).kind = "ok"}}

\* criterion_dir has a measurement of (user, day, phase)
Measured(user, day, phase) ==
    \E i \in 1..Len(criterion_dir) :
      LET d == ParseDir(criterion_dir[i].name)
      IN  d.kind = "ok" /\ d.user = user /\ Decimal(d.day) = day /\ d.phase = phase

Glyphs == {"-", "pensive", "snail", "collision", "cross", "interrobang"}

\* C18: the author columns of the header are the authors that have a
\* measurement, sorted and without repetition; every row has its two
\* labels and exactly one cell for each of these columns, a timing where
\* the author of the column has one and a glyph where not
C18_OneCellPerAuthorColumn ==
    (pc = "reported" /\ report.ok)
      => /\ \A i, j \in 1..Len(report.header) :
              i < j => LexLess(report.header[i], report.header[j])
         /\ {report.header[i] : i \in 1..Len(report.header)} = Authors
         /\ \A r \in 1..Len(report.rows) :
              LET row == report.rows[r] IN
              /\ DOMAIN row = {"day", "phase", "cells"}
              /\ DOMAIN row.cells = 1..Len(report.header)
              /\ \A c \in 1..Len(report.header) :
                   /\ row.cells[c].kind \in {"time", "glyph"}
                   /\ row.cells[c].kind = "glyph" => row.cells[c].glyph \in Glyphs
                   /\ row.phase /= Chars("Total") =>
                        (row.cells[c].kind = "time"
                           <=> Measured(report.header[c], row.day, row.phase))

C18_Witness ==
    /\ pc = "reported" /\ report.ok
    /\ report.header = <<<<"a">>, <<"c">>>>
    /\ Len(criterion_dir) = 3
    /\ \E r \in 1..Len(report.rows) :
         /\ report.rows[r].cells[1].kind = "time"
         /\ report.rows[r].cells[2].kind = "glyph"
         /\ report.rows[r].cells[2].glyph = "snail"

\* the number of decimal digits of a positive number
RECURSIVE NumDigits(_)
NumDigits(n) == IF n < 10 THEN 1 ELSE 1 + NumDigits(n \div 10)

\* the decimal order of magnitude of a positive duration v: 10^k <= v < 10^(k+1)
Magnitude(v) == NumDigits(v.m) + v.e - 1

\* the unit for a duration of a decimal order of magnitude
UnitOfMagnitude(k) ==
    IF k < 0 THEN "ps"
    ELSE IF k < 3 THEN "ns"
    ELSE IF k < 6 THEN "us"
    ELSE IF k < 9 THEN "ms"
    ELSE "s"

\* C19: scale_nanoseconds_value gives the unit ps below 1 ns, ns below
\* 1e3, us below 1e6, ms below 1e9 and s from 1e9 on, the mantissa is the
\* duration divided by the unit, and it lies in [1, 1000) for a duration
\* from 0.001 ns to below 1e12 ns
C19_ScaleToLargestUnit ==
    pc = "scaled"
      => /\ scaled.unit = IF ns.m = 0 THEN "ps" ELSE UnitOfMagnitude(Magnitude(ns))
         /\ scaled.mantissa.m = ns.m
         /\ scaled.mantissa.e + UnitExp(scaled.unit) = ns.e
         /\ (ns.m > 0 /\ Magnitude(ns) >= -3 /\ Magnitude(ns) < 12)
              => Magnitude(scaled.mantissa) \in 0..2
         /\ ns = Float(5, -1) => scaled = [mantissa |-> Float(5, 2), unit |-> "ps"]
         /\ ns = Float(15, 2) => scaled = [mantissa |-> Float(15, -1), unit |-> "us"]
         /\ ns = Float(25, 5) => scaled = [mantissa |-> Float(25, -1), unit |-> "ms"]
         /\ ns = Float(3, 9) => scaled = [mantissa |-> Float(3, 0), unit |-> "s"]

C19_Witness ==
    /\ pc = "scaled"
    /\ ns = Float(1000, 6)
    /\ scaled = [mantissa |-> Float(1000, -3), unit |-> "s"]

\* C21: a timing benchmark of parse, part1 or part2 is run only for a phase
\* whose correctness pass was classified Success; a phase that failed has
\* no timing
C21_BenchOnlyAfterSuccess ==
    /\ InCall =>
         \A ph \in Phases :
           ((\E b \in call.benched : b.phase = ph)
              \/ Export(User(call), Day(call), ph) \in exports)
             => call.res[ph] = "Ok"
    /\ \A e \in exports :
         e.phase \in Phases =>
           ~\E i \in 1..Len(log) :
              /\ log[i].kind = "status" /\ log[i].user = e.user
              /\ log[i].day = e.day /\ log[i].phase = e.phase

C21_Witness ==
    /\ InCall /\ call.returned
    /\ call.res = [parse |-> "Ok", part1 |-> "WrongAnswer", part2 |-> "Panic"]
    /\ {b.phase : b \in call.benched} = {"parse"}

\* the sample count for an elapsed time of d ms: 10 from one second on,
\* 50 from 100 ms to below one second, 100 below 100 ms
SamplesFor(d) == IF d >= 1000 THEN 10 ELSE IF d >= 100 THEN 50 ELSE 100

\* C22: the benchmark of part1 or part2 after a correctness pass that took
\* d has 10 samples when d >= 1 s, 50 when 100 ms <= d < 1 s and 100 when
\* d < 100 ms
C22_SampleCountByElapsed ==
    InCall =>
      \A b \in call.benched :
        b.phase \in {"part1", "part2"} => b.n = SamplesFor(Run(b.phase).T)

\* the worker bench_aoc_day spawned for a phase of the current call
OwnWorker(ph) ==
    Worker(call.u, call.d, ph, call.v, IF ph = "parse" THEN <<>> ELSE Expected(ph))

\* what the message of a worker is classified as
ClassifyMsg(ph, m) == IF ph = "parse" THEN ClassifyParse(m) ELSE ClassifySolve(m)

\* the results the worker of a phase can lead to
OwnOutcomes(ph) ==
    LET w == OwnWorker(ph) IN
    (IF w.T = Never \/ w.T >= Deadline(ph) THEN {"Timeout"} ELSE {})
      \cup (IF w.T /= Never /\ w.T <= Deadline(ph) THEN {ClassifyMsg(ph, w.msg)} ELSE {})

\* C23: every worker has a channel of its own and sends once, so the
\* result of a phase attempt comes from the message or the silence of the
\* worker spawned for this attempt, never from the message of an abandoned
\* worker of another phase or of another variant
C23_OwnChannelOnly ==
    /\ \A ph \in Phases :
         (InCall /\ ph \in call.spawned /\ call.res[ph] /= "pending")
           => call.res[ph] \in OwnOutcomes(ph)
    /\ \A w1, w2 \in workers :
         (w1.u = w2.u /\ w1.d = w2.d /\ w1.phase = w2.phase) => w1 = w2

C23_Witness ==
    /\ pc = "wait_part2"
    /\ call.res["part1"] = "Timeout"
    /\ \E w1, w2 \in workers :
         /\ w1.u = call.u /\ w1.d = call.d /\ w1.phase = "part1" /\ w1.st = "sent"
         /\ w2.u = call.u /\ w2.d = call.d /\ w2.phase = "part2" /\ w2.st = "running"

\* the workers of a phase of the current call that have not sent
RunningWorkers(ph) ==
    {w \in workers : w.u = call.u /\ w.d = call.d /\ w.phase = ph /\ w.st = "running"}

\* C24: the wait for a phase attempt ends at the deadline of the phase at
\* the latest; a worker is joined only after its result was received from
\* its channel, and a worker whose deadline fired is never joined
C24_BoundedWaitJoinAfterReceive ==
    InCall =>
      /\ \A x \in call.waits : x.t /= Never /\ x.t >= 0 /\ x.t <= PhaseBudget(x.phase)
      /\ \A ph \in call.joined :
           /\ call.res[ph] = "Ok"
           /\ Wait(ph, OwnWorker(ph).T) \in call.waits
           /\ RunningWorkers(ph) = {}
      /\ \A ph \in Phases :
           (ph \in call.spawned /\ call.res[ph] = "Timeout") => ph \notin call.joined

C24_Witness ==
    /\ InCall
    /\ call.joined = {"parse"}
    /\ Wait("part1", 10000) \in call.waits
    /\ call.res["part1"] = "Timeout"
    /\ RunningWorkers("part1") /= {}

\* the status lines of the log for exactly (user, day, phase)
OwnLog(user, day, phase) ==
    SelectSeq(log, LAMBDA l : /\ l.kind = "status"
                              /\ l.user = user /\ l.day = day /\ Chars(l.phase) = phase)

\* C25: the glyph of a missing cell (author, day, phase) is the glyph the
\* status lines of exactly that author, day and phase give; the lines of
\* another author, of another day or of another phase do not change it
C25_GlyphFromOwnLinesOnly ==
    (pc = "reported" /\ report.ok)
      => \A r \in 1..Len(report.rows), c \in 1..Len(report.header) :
           LET row == report.rows[r]
               user == report.header[c]
               day == CHOOSE d \in 0..255 : Decimal(d) = row.day
           IN  row.cells[c].kind = "glyph"
                 => row.cells[c].glyph
                      = MissingCell(OwnLog(user, day, row.phase), user, day, row.phase)

====
